---- MODULE Spec2Model ----
\* CineExplorer, phase 2: construction of the denormalised collection
\* movies_complete from the flat MongoDB collections
\* (scripts/phase2_mongodb/build_movies_complete.py).
\*
\* The model follows MovieCompleteBuilderFast.build_movies_complete phase by
\* phase, as called from main(): each source collection is drained into its
\* in-memory dictionary, the documents are assembled, the destination is
\* dropped and filled batch by batch, the four indexes are created, and main
\* closes the connection whether the build returned or raised.
\*
\* Values: identifiers, titles, genres and names are strings; year and votes
\* are integers; runtime and average are numerals written as strings, so that
\* Python's None (null below) has the same type as a present value.
EXTENDS Integers, Sequences, FiniteSets, TLC

VARIABLES
    db,               \* the flat source collections, each in natural (cursor) order
    movies_complete,  \* the destination collection, in insertion order
    indexes,          \* keys of the secondary indexes of the destination
    ops,              \* write operations issued on the destination by this run
    pc,               \* position of main / build_movies_complete
    movies,           \* list(self.db.movies.find(...))
    ratings_dict,
    genres_dict,
    persons_dict,
    directors_dict,
    cast_dict,        \* movie_id -> insertion-ordered mapping person_id -> entry
    writers_dict,
    complete_movies,
    i,                \* offset of the next batch in complete_movies
    error,            \* the exception caught by main: the phase that raised, or null
    closed,           \* number of calls of builder.close()
    run,              \* which run of the script this is
    previous,         \* what the run before this one left in the destination
    progress,         \* the counts of the progress messages printed by the bulk load
    reported,         \* the exception main has printed, or null
    \* migrate_flat.py, MigrationFlat
    sqlite,           \* table name -> the rows of the table in the SQLite database
    mongo_db,         \* collection name -> the documents of the flat collection
    stats,            \* self.stats: tables_migrated, total_documents, table_stats
    table,            \* position in Config.TABLES of the table migrate_all is at
    attempts,         \* the calls of migrate_table made so far and what they returned
    mpc               \* where migrate_all is

vars == <<db, movies_complete, indexes, ops, pc, movies, ratings_dict,
          genres_dict, persons_dict, directors_dict, cast_dict, writers_dict,
          complete_movies, i, error, closed, run, previous, progress, reported,
          sqlite, mongo_db, stats, table, attempts, mpc>>

\* ------------------------------------------------------------------ bounds

MaxMovies == 3
MaxPrincipals == 3
MaxCharacters == 2
MaxAssoc == 2
\* The code writes batches of 1000 documents; the model scales the batch down
\* so that a full batch followed by a partial one fits MaxMovies.
batch_size == 2
\* the script is run at most this many times in a row
MaxRuns == 2
\* the movies of the largest source of the bulk load runs
MaxDocs == 20
\* the rows of the largest table of the flat migration
MaxRows == 3
\* migrate_flat.py line 67 has batches of 1000 rows; scaled down as batch_size is
BATCH_SIZE == 2
\* the tables that may fail in one migration
MaxFailures == 2

\* ------------------------------------------------------------------ values

null == "null"
Unknown == "Unknown"

SeqUpTo(S, n) == UNION {[1..k -> S] : k \in 0..n}

Range(s) == {s[k] : k \in DOMAIN s}

Movie(m, t, y, r) ==
    [movie_id |-> m, primary_title |-> t, start_year |-> y, runtime_minutes |-> r]
Rating(m, a, v) == [movie_id |-> m, average_rating |-> a, num_votes |-> v]
Genre(m, g) == [movie_id |-> m, genre |-> g]
Person(p, n) == [person_id |-> p, name |-> n]
Link(m, p) == [movie_id |-> m, person_id |-> p]
Character(m, p, n) == [movie_id |-> m, person_id |-> p, name |-> n]

M1 == Movie("m1", "Alpha", 2000, "100")
M2 == Movie("m2", "Beta", 2001, null)
M3 == Movie("m3", "Gamma", 2002, "90")

MovieRecs == {M1, M2, M3}
RatingRows == {Rating("m1", "8.5", 1000), Rating("m1", "7.0", 10), Rating("m2", null, 5)}
GenreRows == {Genre("m1", "Drama"), Genre("m1", "Comedy"), Genre("m2", "Drama")}
PersonRows == {Person("p1", "A. Actor"), Person("p2", "B. Director"), Person("p1", "A. Alias")}
LinkRows == {Link("m1", "p1"), Link("m1", "p2"), Link("m2", "p1"), Link("m2", "p9")}
PrincipalRows == {Link("m1", "p1"), Link("m1", "p9"), Link("m2", "p9")}
CharacterRows ==
    {Character("m1", "p1", "Hero"), Character("m1", "p1", "Narrator"),
     Character("m1", "p9", "Hero"), Character("m2", "p1", "Hero")}

\* ------------------------------------------------- Python dict and list

EmptyDict == <<>>

\* d[k] = v
Put(d, k, v) == [x \in (DOMAIN d) \cup {k} |-> IF x = k THEN v ELSE d[x]]

\* d.get(k, default)
Get(d, k, default) == IF k \in DOMAIN d THEN d[k] ELSE default

\* ------------------------------------------------ the loops of the build

\* RatingStep keeping the rating a movie already has
RatingStep_FirstWins(d, rating) ==
    IF rating.movie_id \in DOMAIN d
    THEN d
    ELSE Put(d, rating.movie_id,
             [average |-> rating.average_rating, votes |-> rating.num_votes])

\* lines 40-44: ratings_dict[rating["movie_id"]] = {"average": ..., "votes": ...}
RatingStep(d, rating) ==
    Put(d, rating.movie_id,
        [average |-> rating.average_rating, votes |-> rating.num_votes])

\* GenreStep keeping each genre once per movie
GenreStep_Dedup(d, genre) ==
    IF genre.genre \in Range(Get(d, genre.movie_id, <<>>))
    THEN d
    ELSE Put(d, genre.movie_id, Append(Get(d, genre.movie_id, <<>>), genre.genre))

\* lines 50-53: genres_dict[movie_id].append(genre["genre"])
GenreStep(d, genre) ==
    Put(d, genre.movie_id, Append(Get(d, genre.movie_id, <<>>), genre.genre))

\* lines 59-60: persons_dict[person["person_id"]] = person["name"]
PersonStep(d, person) == Put(d, person.person_id, person.name)

\* the person_id itself as the name of a person the persons relation lacks
PersonName_Id(pd, person_id) == Get(pd, person_id, person_id)

\* persons_dict.get(person_id, "Unknown")
PersonName(pd, person_id) == Get(pd, person_id, Unknown)

\* lines 66-74 (directors) and 108-116 (writers): append {"person_id", "name"}
CreditStep(d, pd, row) ==
    Put(d, row.movie_id,
        Append(Get(d, row.movie_id, <<>>),
               [person_id |-> row.person_id, name |-> PersonName(pd, row.person_id)]))

\* person_id in cast_dict[movie_id], on the insertion-ordered mapping
HasPerson(entries, person_id) == \E k \in DOMAIN entries : entries[k].person_id = person_id

\* PrincipalStep putting a new entry in front of the earlier ones
PrincipalStep_Prepend(d, pd, principal) ==
    LET entries == Get(d, principal.movie_id, <<>>)
        entry == [person_id |-> principal.person_id,
                  name |-> PersonName(pd, principal.person_id),
                  characters |-> <<>>]
    IN  IF HasPerson(entries, principal.person_id)
        THEN Put(d, principal.movie_id, entries)
        ELSE Put(d, principal.movie_id, <<entry>> \o entries)

\* PrincipalStep without the test of line 89: one entry per principals row
PrincipalStep_NoDedup(d, pd, principal) ==
    Put(d, principal.movie_id,
        Append(Get(d, principal.movie_id, <<>>),
               [person_id |-> principal.person_id,
                name |-> PersonName(pd, principal.person_id),
                characters |-> <<>>]))

\* lines 82-94: a new entry for a person not yet seen for that movie
PrincipalStep(d, pd, principal) ==
    LET entries == Get(d, principal.movie_id, <<>>)
        entry == [person_id |-> principal.person_id,
                  name |-> PersonName(pd, principal.person_id),
                  characters |-> <<>>]
    IN  IF HasPerson(entries, principal.person_id)
        THEN Put(d, principal.movie_id, entries)
        ELSE Put(d, principal.movie_id, Append(entries, entry))

\* CharacterStep assigning the name in place of appending it
CharacterStep_Overwrite(d, character) ==
    IF character.movie_id \in DOMAIN d
       /\ HasPerson(d[character.movie_id], character.person_id)
    THEN LET entries == d[character.movie_id]
             added == [k \in DOMAIN entries |->
                         IF entries[k].person_id = character.person_id
                         THEN [person_id |-> entries[k].person_id,
                               name |-> entries[k].name,
                               characters |-> <<character.name>>]
                         ELSE entries[k]]
         IN  Put(d, character.movie_id, added)
    ELSE d

\* CharacterStep keeping each name once per entry
CharacterStep_Dedup(d, character) ==
    IF character.movie_id \in DOMAIN d
       /\ HasPerson(d[character.movie_id], character.person_id)
    THEN LET entries == d[character.movie_id]
             added == [k \in DOMAIN entries |->
                         IF entries[k].person_id = character.person_id
                            /\ character.name \notin Range(entries[k].characters)
                         THEN [person_id |-> entries[k].person_id,
                               name |-> entries[k].name,
                               characters |-> Append(entries[k].characters, character.name)]
                         ELSE entries[k]]
         IN  Put(d, character.movie_id, added)
    ELSE d

\* CharacterStep creating the entry a characters row finds missing
CharacterStep_CreatesEntry(d, character) ==
    LET entries == Get(d, character.movie_id, <<>>)
        known == IF HasPerson(entries, character.person_id)
                 THEN entries
                 ELSE Append(entries, [person_id |-> character.person_id,
                                       name |-> Unknown,
                                       characters |-> <<>>])
        added == [k \in DOMAIN known |->
                    IF known[k].person_id = character.person_id
                    THEN [person_id |-> known[k].person_id,
                          name |-> known[k].name,
                          characters |-> Append(known[k].characters, character.name)]
                    ELSE known[k]]
    IN  Put(d, character.movie_id, added)

\* CharacterStep without the person test of line 100: the name goes to every
\* entry of the movie
CharacterStep_AnyPerson(d, character) ==
    IF character.movie_id \in DOMAIN d
    THEN Put(d, character.movie_id,
             [k \in DOMAIN d[character.movie_id] |->
                [person_id |-> d[character.movie_id][k].person_id,
                 name |-> d[character.movie_id][k].name,
                 characters |-> Append(d[character.movie_id][k].characters, character.name)]])
    ELSE d

\* lines 98-101: append the character name to the entry of that movie and person
CharacterStep(d, character) ==
    IF character.movie_id \in DOMAIN d
       /\ HasPerson(d[character.movie_id], character.person_id)
    THEN LET entries == d[character.movie_id]
             added == [k \in DOMAIN entries |->
                         IF entries[k].person_id = character.person_id
                         THEN [person_id |-> entries[k].person_id,
                               name |-> entries[k].name,
                               characters |-> Append(entries[k].characters, character.name)]
                         ELSE entries[k]]
         IN  Put(d, character.movie_id, added)
    ELSE d

RECURSIVE BuildRatings(_, _)
BuildRatings(rows, d) ==
    IF rows = <<>> THEN d ELSE BuildRatings(Tail(rows), RatingStep(d, Head(rows)))

RECURSIVE BuildGenres(_, _)
BuildGenres(rows, d) ==
    IF rows = <<>> THEN d ELSE BuildGenres(Tail(rows), GenreStep(d, Head(rows)))

RECURSIVE BuildPersons(_, _)
BuildPersons(rows, d) ==
    IF rows = <<>> THEN d ELSE BuildPersons(Tail(rows), PersonStep(d, Head(rows)))

RECURSIVE BuildCredits(_, _, _)
BuildCredits(rows, pd, d) ==
    IF rows = <<>> THEN d ELSE BuildCredits(Tail(rows), pd, CreditStep(d, pd, Head(rows)))

RECURSIVE BuildCast(_, _, _)
BuildCast(rows, pd, d) ==
    IF rows = <<>> THEN d ELSE BuildCast(Tail(rows), pd, PrincipalStep(d, pd, Head(rows)))

RECURSIVE AddCharacters(_, _)
AddCharacters(rows, d) ==
    IF rows = <<>> THEN d ELSE AddCharacters(Tail(rows), CharacterStep(d, Head(rows)))

\* line 127: list(cast_dict.get(movie_id, {}).values()) if movie_id in cast_dict else []
CastList(cd, movie_id) == IF movie_id \in DOMAIN cd THEN Get(cd, movie_id, <<>>) ELSE <<>>

\* a default rating with an average of zero in place of None
DefaultRating_Zero == [average |-> "0.0", votes |-> 0]

DefaultRating == [average |-> null, votes |-> 0]

\* CompleteDoc stamping the document with the run that built it
CompleteDoc_Stamped(movie, rd, gd, dd, cd, wd) ==
    [_id |-> movie.movie_id,
     title |-> movie.primary_title,
     year |-> movie.start_year,
     runtime |-> movie.runtime_minutes,
     rating |-> Get(rd, movie.movie_id, DefaultRating),
     genres |-> Get(gd, movie.movie_id, <<>>),
     directors |-> Get(dd, movie.movie_id, <<>>),
     cast |-> CastList(cd, movie.movie_id),
     writers |-> Get(wd, movie.movie_id, <<>>),
     built |-> run]

\* CompleteDoc leaving the runtime field out when the movie has no runtime
CompleteDoc_OmitsRuntime(movie, rd, gd, dd, cd, wd) ==
    IF movie.runtime_minutes = null
    THEN [_id |-> movie.movie_id,
          title |-> movie.primary_title,
          year |-> movie.start_year,
          rating |-> Get(rd, movie.movie_id, DefaultRating),
          genres |-> Get(gd, movie.movie_id, <<>>),
          directors |-> Get(dd, movie.movie_id, <<>>),
          cast |-> CastList(cd, movie.movie_id),
          writers |-> Get(wd, movie.movie_id, <<>>)]
    ELSE [_id |-> movie.movie_id,
          title |-> movie.primary_title,
          year |-> movie.start_year,
          runtime |-> movie.runtime_minutes,
          rating |-> Get(rd, movie.movie_id, DefaultRating),
          genres |-> Get(gd, movie.movie_id, <<>>),
          directors |-> Get(dd, movie.movie_id, <<>>),
          cast |-> CastList(cd, movie.movie_id),
          writers |-> Get(wd, movie.movie_id, <<>>)]

\* CompleteDoc with a placeholder genre for a movie without genre row
CompleteDoc_UnknownGenre(movie, rd, gd, dd, cd, wd) ==
    [_id |-> movie.movie_id,
     title |-> movie.primary_title,
     year |-> movie.start_year,
     runtime |-> movie.runtime_minutes,
     rating |-> Get(rd, movie.movie_id, DefaultRating),
     genres |-> Get(gd, movie.movie_id, <<Unknown>>),
     directors |-> Get(dd, movie.movie_id, <<>>),
     cast |-> CastList(cd, movie.movie_id),
     writers |-> Get(wd, movie.movie_id, <<>>)]

\* lines 124-139: the composite document of one movie
CompleteDoc(movie, rd, gd, dd, cd, wd) ==
    [_id |-> movie.movie_id,
     title |-> movie.primary_title,
     year |-> movie.start_year,
     runtime |-> movie.runtime_minutes,
     rating |-> Get(rd, movie.movie_id, DefaultRating),
     genres |-> Get(gd, movie.movie_id, <<>>),
     directors |-> Get(dd, movie.movie_id, <<>>),
     cast |-> CastList(cd, movie.movie_id),
     writers |-> Get(wd, movie.movie_id, <<>>)]

\* Assemble as an outer join with ratings: a rated movie_id that the movies
\* relation lacks gets a document too
Assemble_WithOrphans(ms, rd, gd, dd, cd, wd) ==
    LET known == [k \in DOMAIN ms |-> CompleteDoc(ms[k], rd, gd, dd, cd, wd)]
        extra == DOMAIN rd \ {ms[k].movie_id : k \in DOMAIN ms}
    IN  IF extra = {} THEN known
        ELSE Append(known,
                    CompleteDoc(Movie(CHOOSE m \in extra : TRUE, Unknown, 0, null),
                                rd, gd, dd, cd, wd))

\* Assemble as an inner join with ratings: a movie without rating gets no document
Assemble_RatedOnly(ms, rd, gd, dd, cd, wd) ==
    LET rated == SelectSeq(ms, LAMBDA m : m.movie_id \in DOMAIN rd)
    IN  [k \in DOMAIN rated |-> CompleteDoc(rated[k], rd, gd, dd, cd, wd)]

\* lines 121-140: one document per movie, in the order of the movies list
Assemble(ms, rd, gd, dd, cd, wd) ==
    [k \in DOMAIN ms |-> CompleteDoc(ms[k], rd, gd, dd, cd, wd)]

\* ----------------------------------------------------------- the inputs

\* The scenario of the specification: one movie with a rating, a genre, a
\* director, one actor playing two characters, and no writer.
BaseSource ==
    [movies |-> <<M1>>,
     ratings |-> <<Rating("m1", "8.5", 1000)>>,
     genres |-> <<Genre("m1", "Drama")>>,
     persons |-> <<Person("p1", "A. Actor"), Person("p2", "B. Director")>>,
     directors |-> <<Link("m1", "p2")>>,
     principals |-> <<Link("m1", "p1")>>,
     characters |-> <<Character("m1", "p1", "Hero"), Character("m1", "p1", "Narrator")>>,
     writers |-> <<>>]

TwoMovies == [BaseSource EXCEPT !.movies = <<M1, M2>>]

\* The source databases of the model: each family varies one relation, or two
\* that the code joins, around the scenario above. The collections carry no
\* uniqueness constraint, so rows and keys may repeat.
MovieSources ==
    {[BaseSource EXCEPT !.movies = ms] : ms \in SeqUpTo(MovieRecs, MaxMovies)}
RatingSources ==
    {[TwoMovies EXCEPT !.ratings = rs] : rs \in SeqUpTo(RatingRows, MaxAssoc)}
GenreSources ==
    {[TwoMovies EXCEPT !.genres = gs] : gs \in SeqUpTo(GenreRows, MaxAssoc)}
DirectorSources ==
    {[TwoMovies EXCEPT !.persons = ps, !.directors = ds] :
        ps \in SeqUpTo(PersonRows, MaxAssoc), ds \in SeqUpTo(LinkRows, MaxAssoc)}
WriterSources ==
    {[TwoMovies EXCEPT !.persons = ps, !.writers = ws] :
        ps \in SeqUpTo(PersonRows, MaxAssoc), ws \in SeqUpTo(LinkRows, MaxAssoc)}
CastSources ==
    {[TwoMovies EXCEPT !.principals = prs, !.characters = cs] :
        prs \in SeqUpTo(PrincipalRows, MaxPrincipals),
        cs \in SeqUpTo(CharacterRows, MaxCharacters)}

\* the k-th movie of the sources of the bulk load runs
BulkMovie(k) ==
    IF k = 1 THEN M1
    ELSE Movie("m" \o ToString(k), "Title " \o ToString(k), 2000 + k, null)

\* Sources that differ in the number of movies only, from none to enough for
\* ten batches.
BulkSources ==
    {[BaseSource EXCEPT !.movies = [k \in 1..n |-> BulkMovie(k)]] : n \in 0..MaxDocs}

Sources ==
    MovieSources \cup RatingSources \cup GenreSources \cup DirectorSources
        \cup WriterSources \cup CastSources

\* lines 163-166
IndexKeys == <<"title", "year", "genres", "rating.average">>

\* What an earlier run may have left in the destination.
StaleDoc ==
    [_id |-> "m0", title |-> "Old", year |-> 1999, runtime |-> null,
     rating |-> DefaultRating, genres |-> <<>>, directors |-> <<>>,
     cast |-> <<>>, writers |-> <<>>]

Prior ==
    {[docs |-> <<>>, indexes |-> {}],
     [docs |-> <<StaleDoc>>, indexes |-> Range(IndexKeys)]}

\* --------------------------------------------------------- the program

\* no run has gone before
NoRun == [docs |-> <<>>, completed |-> FALSE, error |-> null]

\* an entry of ops: the documents an insert_many wrote or a drop removed, the
\* key of a create_index
Op(name, docs, key) == [op |-> name, docs |-> docs, key |-> key]

\* migrate_flat.py lines 105-110
NoStats == [tables_migrated |-> 0, total_documents |-> 0, table_stats |-> EmptyDict]

migration == <<sqlite, mongo_db, stats, table, attempts, mpc>>

\* the flat migration is not running
NoMigration ==
    /\ sqlite = EmptyDict
    /\ mongo_db = EmptyDict
    /\ stats = NoStats
    /\ table = 1
    /\ attempts = <<>>
    /\ mpc = "idle"

\* the state when main calls build_movies_complete on one of the sources
Start(sources) ==
    /\ NoMigration
    /\ db \in sources
    /\ \E prior \in Prior :
        /\ movies_complete = prior.docs
        /\ indexes = prior.indexes
    /\ ops = <<>>
    /\ pc = "movies"
    /\ movies = <<>>
    /\ ratings_dict = EmptyDict
    /\ genres_dict = EmptyDict
    /\ persons_dict = EmptyDict
    /\ directors_dict = EmptyDict
    /\ cast_dict = EmptyDict
    /\ writers_dict = EmptyDict
    /\ complete_movies = <<>>
    /\ i = 0
    /\ error = null
    /\ closed = 0
    /\ run = 1
    /\ previous = NoRun
    /\ progress = <<>>
    /\ reported = null

Init == Start(Sources)

store == <<db, movies_complete, indexes, ops>>
dicts == <<ratings_dict, genres_dict, persons_dict, directors_dict, cast_dict, writers_dict>>
caller == <<error, closed>>
history == <<run, previous>>
stdout == <<progress, reported>>

\* the build dropping the destination before it has read anything
ReadMovies_DropsFirst ==
    /\ pc = "movies"
    /\ movies' = db.movies
    /\ movies_complete' = <<>>
    /\ indexes' = {}
    /\ ops' = Append(ops, Op("drop", movies_complete, null))
    /\ pc' = "ratings"
    /\ UNCHANGED <<migration, history, stdout, db, dicts, complete_movies, i, caller>>

\* line 34
ReadMovies ==
    /\ pc = "movies"
    /\ movies' = db.movies
    /\ pc' = "ratings"
    /\ UNCHANGED <<migration, history, stdout, store, dicts, complete_movies, i, caller>>

\* lines 39-44
ReadRatings ==
    /\ pc = "ratings"
    /\ ratings_dict' = BuildRatings(db.ratings, EmptyDict)
    /\ pc' = "genres"
    /\ UNCHANGED <<migration, history, stdout, store, movies, genres_dict, persons_dict, directors_dict,
                   cast_dict, writers_dict, complete_movies, i, caller>>

\* the directors read right after the genres, before the persons are loaded
ReadGenres_ThenDirectors ==
    /\ pc = "genres"
    /\ genres_dict' = BuildGenres(db.genres, EmptyDict)
    /\ pc' = "directors"
    /\ UNCHANGED <<migration, history, stdout, store, movies, ratings_dict, persons_dict, directors_dict,
                   cast_dict, writers_dict, complete_movies, i, caller>>

\* lines 49-53
ReadGenres ==
    /\ pc = "genres"
    /\ genres_dict' = BuildGenres(db.genres, EmptyDict)
    /\ pc' = "persons"
    /\ UNCHANGED <<migration, history, stdout, store, movies, ratings_dict, persons_dict, directors_dict,
                   cast_dict, writers_dict, complete_movies, i, caller>>

\* lines 58-60
ReadPersons ==
    /\ pc = "persons"
    /\ persons_dict' = BuildPersons(db.persons, EmptyDict)
    /\ pc' = "directors"
    /\ UNCHANGED <<migration, history, stdout, store, movies, ratings_dict, genres_dict, directors_dict,
                   cast_dict, writers_dict, complete_movies, i, caller>>

\* lines 65-74
ReadDirectors ==
    /\ pc = "directors"
    /\ directors_dict' = BuildCredits(db.directors, persons_dict, EmptyDict)
    /\ pc' = "principals"
    /\ UNCHANGED <<migration, history, stdout, store, movies, ratings_dict, genres_dict, persons_dict,
                   cast_dict, writers_dict, complete_movies, i, caller>>

\* lines 79-94
ReadPrincipals ==
    /\ pc = "principals"
    /\ cast_dict' = BuildCast(db.principals, persons_dict, EmptyDict)
    /\ pc' = "characters"
    /\ UNCHANGED <<migration, history, stdout, store, movies, ratings_dict, genres_dict, persons_dict,
                   directors_dict, writers_dict, complete_movies, i, caller>>

\* lines 98-101
ReadCharacters ==
    /\ pc = "characters"
    /\ cast_dict' = AddCharacters(db.characters, cast_dict)
    /\ pc' = "writers"
    /\ UNCHANGED <<migration, history, stdout, store, movies, ratings_dict, genres_dict, persons_dict,
                   directors_dict, writers_dict, complete_movies, i, caller>>

\* lines 107-116
ReadWriters ==
    /\ pc = "writers"
    /\ writers_dict' = BuildCredits(db.writers, persons_dict, EmptyDict)
    /\ pc' = "assemble"
    /\ UNCHANGED <<migration, history, stdout, store, movies, ratings_dict, genres_dict, persons_dict,
                   directors_dict, cast_dict, complete_movies, i, caller>>

\* the assembly filling the genres index with an empty list for a movie it lacks
AssembleDocuments_SetDefault ==
    /\ pc = "assemble"
    /\ complete_movies' = Assemble(movies, ratings_dict, genres_dict,
                                   directors_dict, cast_dict, writers_dict)
    /\ genres_dict' = [m \in DOMAIN genres_dict \cup {movies[k].movie_id : k \in DOMAIN movies} |->
                          Get(genres_dict, m, <<>>)]
    /\ pc' = "drop"
    /\ UNCHANGED <<migration, history, stdout, store, movies, ratings_dict, persons_dict, directors_dict,
                   cast_dict, writers_dict, i, caller>>

\* lines 121-140
AssembleDocuments ==
    /\ pc = "assemble"
    /\ complete_movies' = Assemble(movies, ratings_dict, genres_dict,
                                   directors_dict, cast_dict, writers_dict)
    /\ pc' = "drop"
    /\ UNCHANGED <<migration, history, stdout, store, movies, dicts, i, caller>>

\* the batches taken from the end of the list backwards
Batch_FromEnd(docs, from) ==
    SubSeq(docs,
           IF Len(docs) - from - batch_size + 1 > 1 THEN Len(docs) - from - batch_size + 1 ELSE 1,
           Len(docs) - from)

\* a batch that runs to the end of the list
Batch_Whole(docs, from) == SubSeq(docs, from + 1, Len(docs))

\* line 154: complete_movies[i:i + batch_size]
Batch(docs, from) ==
    SubSeq(docs, from + 1, IF from + batch_size < Len(docs) THEN from + batch_size ELSE Len(docs))

\* the loop going on while the next offset is no greater than the length
MoreBatches_Inclusive(docs, from) == from + batch_size <= Len(docs)

\* line 153: range(0, len(complete_movies), batch_size) has a value after from
MoreBatches(docs, from) == from + batch_size < Len(docs)

\* line 156: a progress message after every fifth batch (5000 = 5 * batch_size)
progress_every == 5 * batch_size

\* the count of the progress message without the min
Inserted_Unclamped(docs, from) == from + batch_size

\* line 157: min(i + batch_size, len(complete_movies))
Inserted(docs, from) ==
    IF from + batch_size < Len(docs) THEN from + batch_size ELSE Len(docs)

Ids(docs) == {docs[k]._id : k \in DOMAIN docs}

\* The unique index on _id: the position of the first document of the batch
\* whose _id is already in the collection or earlier in the batch, 0 if none.
FirstDuplicate(coll, batch) ==
    LET dup == {k \in DOMAIN batch :
                    batch[k]._id \in Ids(coll) \cup Ids(SubSeq(batch, 1, k - 1))}
    IN  IF dup = {} THEN 0 ELSE CHOOSE k \in dup : \A j \in dup : k <= j

\* drop_indexes() in place of drop(): the documents stay
DropCollection_IndexesOnly ==
    /\ pc = "drop"
    /\ indexes' = {}
    /\ ops' = Append(ops, Op("drop_indexes", <<>>, null))
    /\ i' = 0
    /\ pc' = IF Len(complete_movies) > 0 THEN "insert" ELSE "index"
    /\ UNCHANGED <<migration, history, stdout, db, movies_complete, movies, dicts, complete_movies, caller>>

\* the drop left out: the build writes into the collection as it finds it
DropCollection_NoDrop ==
    /\ pc = "drop"
    /\ i' = 0
    /\ pc' = IF Len(complete_movies) > 0 THEN "insert" ELSE "index"
    /\ UNCHANGED <<migration, history, stdout, store, movies, dicts, complete_movies, caller>>

\* line 148: drop() removes the documents and the indexes of the collection
DropCollection ==
    /\ pc = "drop"
    /\ movies_complete' = <<>>
    /\ indexes' = {}
    /\ ops' = Append(ops, Op("drop", movies_complete, null))
    /\ i' = 0
    /\ pc' = IF Len(complete_movies) > 0 THEN "insert" ELSE "index"
    /\ UNCHANGED <<migration, history, stdout, db, movies, dicts, complete_movies, caller>>

\* lines 153-155, one iteration: an ordered insert_many that succeeds
InsertBatch ==
    /\ pc = "insert"
    /\ LET batch == Batch(complete_movies, i)
       IN  /\ FirstDuplicate(movies_complete, batch) = 0
           /\ movies_complete' = movies_complete \o batch
           /\ ops' = Append(ops, Op("insert_many", batch, null))
    /\ progress' = IF (i + batch_size) % progress_every = 0
                   THEN Append(progress, Inserted(complete_movies, i))
                   ELSE progress
    /\ pc' = IF MoreBatches(complete_movies, i) THEN "insert" ELSE "index"
    /\ i' = IF MoreBatches(complete_movies, i) THEN i + batch_size ELSE i
    /\ UNCHANGED <<migration, history, reported, db, indexes, movies, dicts, complete_movies, caller>>

\* a failed batch write caught inside the build, which goes on to the indexes
InsertFails_Swallowed ==
    /\ pc = "insert"
    /\ LET batch == Batch(complete_movies, i)
           dup == FirstDuplicate(movies_complete, batch)
       IN  \E k \in 1..Len(batch) :
            /\ dup # 0 => k <= dup
            /\ movies_complete' = movies_complete \o SubSeq(batch, 1, k - 1)
            /\ ops' = Append(ops, Op("insert_many", SubSeq(batch, 1, k - 1), null))
    /\ error' = "insert"
    /\ reported' = "insert"
    /\ pc' = "index"
    /\ UNCHANGED <<migration, history, progress, db, indexes, movies, dicts, complete_movies, i, closed>>

\* a failed batch write undoing the batches written before it
InsertFails_RollsBack ==
    /\ pc = "insert"
    /\ movies_complete' = <<>>
    /\ ops' = Append(ops, Op("insert_many", <<>>, null))
    /\ error' = "insert"
    /\ reported' = "insert"
    /\ pc' = "except"
    /\ UNCHANGED <<migration, history, progress, db, indexes, movies, dicts, complete_movies, i, closed>>

\* line 155 raising: an ordered insert_many stops at the first document it
\* cannot write (a duplicate _id, or any write error), keeps the documents
\* before it, and the exception leaves build_movies_complete; main catches
\* it and prints it (lines 222-225).
InsertFails ==
    /\ pc = "insert"
    /\ LET batch == Batch(complete_movies, i)
           dup == FirstDuplicate(movies_complete, batch)
       IN  \E k \in 1..Len(batch) :
            /\ dup # 0 => k <= dup
            /\ movies_complete' = movies_complete \o SubSeq(batch, 1, k - 1)
            /\ ops' = Append(ops, Op("insert_many", SubSeq(batch, 1, k - 1), null))
    /\ error' = "insert"
    /\ reported' = "insert"
    /\ pc' = "except"
    /\ UNCHANGED <<migration, history, progress, db, indexes, movies, dicts, complete_movies, i, closed>>

\* the number of create_index calls this run has made
IndexesCreated == Len(SelectSeq(ops, LAMBDA o : o.op = "create_index"))

\* lines 163-166, one call
CreateIndex ==
    /\ pc = "index"
    /\ LET key == IndexKeys[IndexesCreated + 1]
       IN  /\ indexes' = indexes \cup {key}
           /\ ops' = Append(ops, Op("create_index", <<>>, key))
    /\ pc' = IF IndexesCreated + 1 < Len(IndexKeys) THEN "index" ELSE "example"
    /\ UNCHANGED <<migration, history, stdout, db, movies_complete, movies, dicts, complete_movies, i, caller>>

\* lines 169-198: the summary and the example document read back with find_one
PrintSummary ==
    /\ pc = "example"
    /\ pc' = "return"
    /\ UNCHANGED <<migration, history, stdout, store, movies, dicts, complete_movies, i, caller>>

ReadPhases ==
    {"movies", "ratings", "genres", "persons", "directors", "principals",
     "characters", "writers"}

\* The rows the cursor of the phase has to deliver. list(find()) of line 34
\* binds nothing when it raises, and the drop, create_index and find_one
\* calls run no loop.
Relation(phase) ==
    CASE phase = "ratings" -> db.ratings
      [] phase = "genres" -> db.genres
      [] phase = "persons" -> db.persons
      [] phase = "directors" -> db.directors
      [] phase = "principals" -> db.principals
      [] phase = "characters" -> db.characters
      [] phase = "writers" -> db.writers
      [] OTHER -> <<>>

\* The loop of the phase the run is in has taken the rows the cursor
\* delivered before it raised: the dictionary of that phase holds those rows,
\* the others stay (lines 39-116).
Interrupted(rows) ==
    /\ ratings_dict' = IF pc = "ratings" THEN BuildRatings(rows, EmptyDict) ELSE ratings_dict
    /\ genres_dict' = IF pc = "genres" THEN BuildGenres(rows, EmptyDict) ELSE genres_dict
    /\ persons_dict' = IF pc = "persons" THEN BuildPersons(rows, EmptyDict) ELSE persons_dict
    /\ directors_dict' =
         IF pc = "directors" THEN BuildCredits(rows, persons_dict, EmptyDict) ELSE directors_dict
    /\ cast_dict' =
         IF pc = "principals" THEN BuildCast(rows, persons_dict, EmptyDict)
         ELSE IF pc = "characters" THEN AddCharacters(rows, cast_dict)
         ELSE cast_dict
    /\ writers_dict' =
         IF pc = "writers" THEN BuildCredits(rows, persons_dict, EmptyDict) ELSE writers_dict

\* an error handler that empties the destination when an index cannot be built
Raise_CleansUp ==
    /\ pc \in ReadPhases \cup {"drop", "index", "example"}
    /\ \E k \in 0..Len(Relation(pc)) : Interrupted(SubSeq(Relation(pc), 1, k))
    /\ error' = pc
    /\ pc' = "except"
    /\ reported' = pc
    /\ movies_complete' = IF pc = "index" THEN <<>> ELSE movies_complete
    /\ UNCHANGED <<migration, history, progress, db, indexes, ops, movies, complete_movies, i, closed>>

\* an except clause that catches the exception and prints nothing
Raise_Silent ==
    /\ pc \in ReadPhases \cup {"drop", "index", "example"}
    /\ \E k \in 0..Len(Relation(pc)) : Interrupted(SubSeq(Relation(pc), 1, k))
    /\ error' = pc
    /\ pc' = "except"
    /\ UNCHANGED <<migration, history, stdout, store, movies, complete_movies, i, closed>>

\* A call on the store raises: a find on a source collection or its cursor
\* after any number of rows, the drop, a create_index or the final find_one.
\* main catches it and prints the exception and its traceback (lines 222-225).
Raise ==
    /\ pc \in ReadPhases \cup {"drop", "index", "example"}
    /\ \E k \in 0..Len(Relation(pc)) : Interrupted(SubSeq(Relation(pc), 1, k))
    /\ error' = pc
    /\ reported' = pc
    /\ pc' = "except"
    /\ UNCHANGED <<migration, history, progress, store, movies, complete_movies, i, closed>>

\* builder.close() at the end of the try block instead of in a finally
Close_OnReturn ==
    /\ pc \in {"return", "except"}
    /\ closed' = IF pc = "return" THEN closed + 1 ELSE closed
    /\ pc' = "exit"
    /\ UNCHANGED <<migration, history, stdout, store, movies, dicts, complete_movies, i, error>>

\* lines 227-228: finally builder.close()
Close ==
    /\ pc \in {"return", "except"}
    /\ closed' = closed + 1
    /\ pc' = "exit"
    /\ UNCHANGED <<migration, history, stdout, store, movies, dicts, complete_movies, i, error>>

\* the script is started again, on the same source: a new builder, a new call
\* of build_movies_complete with its locals unset (lines 205-219)
Rerun ==
    /\ pc = "exit"
    /\ run < MaxRuns
    /\ run' = run + 1
    /\ previous' = [docs |-> movies_complete, completed |-> error = null, error |-> error]
    /\ ops' = <<>>
    /\ pc' = "movies"
    /\ movies' = <<>>
    /\ ratings_dict' = EmptyDict
    /\ genres_dict' = EmptyDict
    /\ persons_dict' = EmptyDict
    /\ directors_dict' = EmptyDict
    /\ cast_dict' = EmptyDict
    /\ writers_dict' = EmptyDict
    /\ complete_movies' = <<>>
    /\ i' = 0
    /\ error' = null
    /\ closed' = 0
    /\ progress' = <<>>
    /\ reported' = null
    /\ UNCHANGED <<migration, db, movies_complete, indexes>>

Next ==
    \/ ReadMovies
    \/ ReadRatings
    \/ ReadGenres
    \/ ReadPersons
    \/ ReadDirectors
    \/ ReadPrincipals
    \/ ReadCharacters
    \/ ReadWriters
    \/ AssembleDocuments
    \/ DropCollection
    \/ InsertBatch
    \/ InsertFails
    \/ CreateIndex
    \/ PrintSummary
    \/ Raise
    \/ Close

Spec == Init /\ [][Next]_vars

\* The sources of the runs in a row: the movies vary, or the ratings.
RerunSources == MovieSources \cup RatingSources

InitRerun == Init /\ db \in RerunSources

\* one run after another on an unchanged source
SpecRerun == InitRerun /\ [][Next \/ Rerun]_vars

InitBulk == Start(BulkSources)

\* the run on a source of many movies
SpecBulk == InitBulk /\ [][Next]_vars

\* ------------------------------------------- migrate_flat.py, migrate_all

\* migrate_flat.py lines 70-74
TABLES ==
    <<"PERSONS", "MOVIES", "RATINGS", "GENRES", "PRINCIPALS", "DIRECTORS",
      "WRITERS", "CHARACTERS", "TITLES", "EPISODES", "PROFESSIONS",
      "KNOWNFORMOVIES">>

\* migrate_flat.py lines 76-82
COLLECTION_NAMES ==
    [t \in Range(TABLES) |->
        CASE t = "PERSONS" -> "persons"
          [] t = "MOVIES" -> "movies"
          [] t = "RATINGS" -> "ratings"
          [] t = "GENRES" -> "genres"
          [] t = "PRINCIPALS" -> "principals"
          [] t = "DIRECTORS" -> "directors"
          [] t = "WRITERS" -> "writers"
          [] t = "CHARACTERS" -> "characters"
          [] t = "TITLES" -> "titles"
          [] t = "EPISODES" -> "episodes"
          [] t = "PROFESSIONS" -> "professions"
          [] t = "KNOWNFORMOVIES" -> "knownformovies"]

\* lines 174-187: the rows are gathered in lists of BATCH_SIZE, each handed
\* to insert_many when it is full, the rest after the loop if there is any
RECURSIVE FlatBatches(_)
FlatBatches(rows) ==
    IF rows = <<>> THEN <<>>
    ELSE IF Len(rows) >= BATCH_SIZE
         THEN <<SubSeq(rows, 1, BATCH_SIZE)>>
                \o FlatBatches(SubSeq(rows, BATCH_SIZE + 1, Len(rows)))
         ELSE <<rows>>

\* lines 183 and 187: total_inserted += len(result.inserted_ids)
RECURSIVE TotalInserted(_)
TotalInserted(batches) ==
    IF batches = <<>> THEN 0 ELSE Len(Head(batches)) + TotalInserted(Tail(batches))

\* The calls of migrate_table on the stores, in order: delete_many, execute,
\* one insert_many per batch, create_index.
StoreCalls(rows) == 3 + Len(FlatBatches(rows))

\* migrate_table on a collection holding coll and a table holding rows,
\* lines 163-195. failing is the call that raises, 0 if none does; part is
\* the number of documents an insert_many that raises has written before.
\* The result is what is returned and what the collection holds then.
migrate_table(coll, rows, failing, part) ==
    LET batches == FlatBatches(rows)
        last == StoreCalls(rows)
    IN  IF failing = 0
        THEN [success |-> TRUE, count |-> TotalInserted(batches), docs |-> rows]
        ELSE [success |-> FALSE,
              count |-> 0,
              docs |-> IF failing = 1 THEN coll
                       ELSE IF failing = 2 THEN <<>>
                       ELSE IF failing = last THEN rows
                       ELSE SubSeq(rows, 1, (failing - 3) * BATCH_SIZE + part)]

\* the tables differ in their number of rows, and some are empty
RowCount(n, k) == (n + k) % (MaxRows + 1)

FlatSources ==
    {[t \in Range(TABLES) |->
        [r \in 1..RowCount(n, CHOOSE k \in DOMAIN TABLES : TABLES[k] = t) |-> r]] :
            n \in 0..MaxRows}

\* what the collections hold before: nothing, or a document of an earlier run
FlatPrior == {<<>>, <<0>>}

\* the build of movies_complete is not running
NoBuild ==
    /\ db = BaseSource
    /\ movies_complete = <<>>
    /\ indexes = {}
    /\ ops = <<>>
    /\ pc = "idle"
    /\ movies = <<>>
    /\ ratings_dict = EmptyDict
    /\ genres_dict = EmptyDict
    /\ persons_dict = EmptyDict
    /\ directors_dict = EmptyDict
    /\ cast_dict = EmptyDict
    /\ writers_dict = EmptyDict
    /\ complete_movies = <<>>
    /\ i = 0
    /\ error = null
    /\ closed = 0
    /\ run = 1
    /\ previous = NoRun
    /\ progress = <<>>
    /\ reported = null

build == <<db, movies_complete, indexes, ops, pc, movies, dicts, complete_movies,
           i, error, closed, run, previous, progress, reported>>

\* the state when main calls migrate_all, the connections made (line 264)
InitMigrate ==
    /\ NoBuild
    /\ sqlite \in FlatSources
    /\ \E prior \in FlatPrior :
        mongo_db = [c \in {COLLECTION_NAMES[t] : t \in Range(TABLES)} |-> prior]
    /\ stats = NoStats
    /\ table = 1
    /\ attempts = <<>>
    /\ mpc = "migrate"

Failures == Len(SelectSeq(attempts, LAMBDA a : ~a.success))

\* what migrate_table returned
Attempt(name, result) == [table |-> name, success |-> result.success, count |-> result.count]

\* a failed table ending the loop
MigrateTableFails_Stops ==
    /\ mpc = "migrate"
    /\ table <= Len(TABLES)
    /\ Failures < MaxFailures
    /\ LET name == TABLES[table]
           coll == COLLECTION_NAMES[name]
           rows == sqlite[name]
       IN  \E failing \in 1..StoreCalls(rows) :
           \E part \in 0..(BATCH_SIZE - 1) :
            /\ failing \in 3..(StoreCalls(rows) - 1) =>
                    part < Len(FlatBatches(rows)[failing - 2])
            /\ failing \notin 3..(StoreCalls(rows) - 1) => part = 0
            /\ LET result == migrate_table(mongo_db[coll], rows, failing, part)
               IN  /\ mongo_db' = [mongo_db EXCEPT ![coll] = result.docs]
                   /\ attempts' = Append(attempts, Attempt(name, result))
    /\ table' = Len(TABLES) + 1
    /\ UNCHANGED <<build, sqlite, stats, mpc>>

\* One turn of the loop of migrate_all (lines 201-213) in which migrate_table
\* catches an exception and returns (False, 0): the statistics stay and the
\* loop goes on with the next table.
MigrateTableFails ==
    /\ mpc = "migrate"
    /\ table <= Len(TABLES)
    /\ Failures < MaxFailures
    /\ LET name == TABLES[table]
           coll == COLLECTION_NAMES[name]
           rows == sqlite[name]
       IN  \E failing \in 1..StoreCalls(rows) :
           \E part \in 0..(BATCH_SIZE - 1) :
            /\ failing \in 3..(StoreCalls(rows) - 1) =>
                    part < Len(FlatBatches(rows)[failing - 2])
            /\ failing \notin 3..(StoreCalls(rows) - 1) => part = 0
            /\ LET result == migrate_table(mongo_db[coll], rows, failing, part)
               IN  /\ mongo_db' = [mongo_db EXCEPT ![coll] = result.docs]
                   /\ attempts' = Append(attempts, Attempt(name, result))
    /\ table' = table + 1
    /\ UNCHANGED <<build, sqlite, stats, mpc>>

\* One turn of the loop of migrate_all in which migrate_table returns
\* (True, total_inserted): lines 206-210 add the table to the statistics.
MigrateTableSucceeds ==
    /\ mpc = "migrate"
    /\ table <= Len(TABLES)
    /\ LET name == TABLES[table]
           coll == COLLECTION_NAMES[name]
           result == migrate_table(mongo_db[coll], sqlite[name], 0, 0)
       IN  /\ mongo_db' = [mongo_db EXCEPT ![coll] = result.docs]
           /\ attempts' = Append(attempts, Attempt(name, result))
           /\ stats' = [tables_migrated |-> stats.tables_migrated + 1,
                        total_documents |-> stats.total_documents + result.count,
                        table_stats |-> Put(stats.table_stats, name, result.count)]
    /\ table' = table + 1
    /\ UNCHANGED <<build, sqlite, mpc>>

\* line 215: the loop is over and migrate_all returns
MigrateAllReturns ==
    /\ mpc = "migrate"
    /\ table > Len(TABLES)
    /\ mpc' = "done"
    /\ UNCHANGED <<build, sqlite, mongo_db, stats, table, attempts>>

NextMigrate ==
    \/ MigrateTableSucceeds
    \/ MigrateTableFails
    \/ MigrateAllReturns

SpecMigrate == InitMigrate /\ [][NextMigrate]_vars

\* ------------------------------------------------------------- claims

\* the build returned to main without raising
Completed == pc = "return" \/ (pc = "exit" /\ error = null)

\* the documents this run has handed to insert_many and the store has kept
Written == UNION {Range(o.docs) : o \in {x \in Range(ops) : x.op = "insert_many"}}

\* the output documents: those assembled, and those written to the destination
Documents == Range(complete_movies) \cup Written

RowsOf(rows, movie_id) == SelectSeq(rows, LAMBDA r : r.movie_id = movie_id)

RowsOfPair(rows, movie_id, person_id) ==
    SelectSeq(rows, LAMBDA r : r.movie_id = movie_id /\ r.person_id = person_id)

\* the position of the first row of that person among the rows, 0 if none
FirstRow(rows, person_id) ==
    LET at == {k \in DOMAIN rows : rows[k].person_id = person_id}
    IN  IF at = {} THEN 0 ELSE CHOOSE k \in at : \A j \in at : k <= j

\* C1: a run that completes has assembled, and written to movies_complete,
\* exactly as many documents as the movies relation holds records: one per
\* MovieRecord.
C1_OneDocumentPerMovie ==
    Completed =>
        /\ Len(complete_movies) = Len(db.movies)
        /\ Len(movies_complete) = Len(db.movies)
        /\ \A k \in DOMAIN db.movies : movies_complete[k]._id = db.movies[k].movie_id

C1_Witness ==
    /\ Completed
    /\ Len(db.movies) = 3
    /\ Len(movies_complete) = 3

\* C2: in every cast entry of every output document, a name is in characters
\* exactly when a characters row of that (movie_id, person_id) pair carries
\* it: nothing leaks in from another person or another movie.
C2_CharactersOfThePair ==
    \A d \in Documents : \A k \in DOMAIN d.cast :
        Range(d.cast[k].characters) =
            {r.name : r \in Range(RowsOfPair(db.characters, d._id, d.cast[k].person_id))}

C2_Witness ==
    \E d \in Written : \E k \in DOMAIN d.cast :
        /\ d.cast[k].characters # <<>>
        /\ \E r \in Range(db.characters) :
            /\ r.movie_id # d._id \/ r.person_id # d.cast[k].person_id
            /\ r.name \notin Range(d.cast[k].characters)
            /\ \E e \in Range(db.principals) :
                e.movie_id = r.movie_id /\ e.person_id = r.person_id

\* C3: the cast list of a document is as long as the number of distinct
\* person_id values in the principals rows of its movie, however often a
\* (movie_id, person_id) pair is repeated.
C3_CastLength ==
    \A d \in Documents :
        Len(d.cast) =
            Cardinality({r.person_id : r \in Range(RowsOf(db.principals, d._id))})

C3_Witness ==
    \E d \in Documents :
        /\ Len(d.cast) = 2
        /\ Len(RowsOf(db.principals, d._id)) = 3

\* C4: within one document's cast list each person_id appears at most once,
\* and the entries follow the first appearance of their person_id in the
\* principals stream of that movie.
C4_CastOrder ==
    \A d \in Documents : \A j, k \in DOMAIN d.cast :
        j < k =>
            /\ d.cast[j].person_id # d.cast[k].person_id
            /\ FirstRow(RowsOf(db.principals, d._id), d.cast[j].person_id) > 0
            /\ FirstRow(RowsOf(db.principals, d._id), d.cast[j].person_id)
                 < FirstRow(RowsOf(db.principals, d._id), d.cast[k].person_id)

C4_Witness ==
    \E d \in Documents :
        /\ Len(d.cast) = 2
        /\ LET rows == RowsOf(db.principals, d._id)
           IN  /\ Len(rows) = 3
               /\ rows[1].person_id = rows[3].person_id
               /\ d.cast[1].person_id = rows[1].person_id
               /\ d.cast[2].person_id = rows[2].person_id

\* C5: the characters list of a cast entry is the sequence of the names of
\* the characters rows of its (movie, person) pair, in the order of the
\* rows: one element per matching row, repeated names kept.
C5_CharactersInOrder ==
    \A d \in Documents : \A k \in DOMAIN d.cast :
        LET rows == RowsOfPair(db.characters, d._id, d.cast[k].person_id)
        IN  /\ Len(d.cast[k].characters) = Len(rows)
            /\ \A n \in DOMAIN rows : d.cast[k].characters[n] = rows[n].name

C5_Witness ==
    /\ \E d \in Documents : \E k \in DOMAIN d.cast :
        d.cast[k].characters = <<"Hero", "Hero">>
    /\ pc = "exit"

\* C6: a document whose movie has no ratings row carries the rating
\* {average: null, votes: 0}; a movie with a ratings row carries the average
\* and the votes of a ratings row of that movie.
C6_Rating ==
    \A d \in Documents :
        LET rows == RowsOf(db.ratings, d._id)
        IN  IF rows = <<>>
            THEN d.rating = [average |-> null, votes |-> 0]
            ELSE \E n \in DOMAIN rows :
                    d.rating = [average |-> rows[n].average_rating,
                                votes |-> rows[n].num_votes]

C6_Witness ==
    /\ \E d \in Written :
        RowsOf(db.ratings, d._id) = <<>> /\ d.rating.votes = 0
    /\ \E d \in Written :
        RowsOf(db.ratings, d._id) # <<>> /\ d.rating.votes = 1000

DocumentFields ==
    {"_id", "title", "year", "runtime", "rating", "genres", "directors", "cast", "writers"}

\* C7: a document whose movie has no director, writer, genre or principal
\* row has the corresponding field present and equal to the empty sequence.
C7_EmptyDefaults ==
    \A d \in Documents :
        /\ DOMAIN d = DocumentFields
        /\ RowsOf(db.directors, d._id) = <<>> => d.directors = <<>>
        /\ RowsOf(db.writers, d._id) = <<>> => d.writers = <<>>
        /\ RowsOf(db.genres, d._id) = <<>> => d.genres = <<>>
        /\ RowsOf(db.principals, d._id) = <<>> => d.cast = <<>>

C7_Witness ==
    \E d \in Written :
        /\ RowsOf(db.directors, d._id) = <<>>
        /\ RowsOf(db.writers, d._id) = <<>>
        /\ RowsOf(db.genres, d._id) = <<>>
        /\ RowsOf(db.principals, d._id) = <<>>
        /\ d.genres = <<>>

\* the name the persons relation gives: that of its last row for the
\* person_id, and "Unknown" when it has none
Resolved(person_id) ==
    LET rows == SelectSeq(db.persons, LAMBDA r : r.person_id = person_id)
    IN  IF rows = <<>> THEN "Unknown" ELSE rows[Len(rows)].name

PersonsOf(rows, movie_id) == {r.person_id : r \in Range(RowsOf(rows, movie_id))}

\* C8: every director, writer and cast entry carries the name the persons
\* relation gives for its person_id, "Unknown" when persons has no row for
\* it; a row with such a person_id still yields its entry, and the phase
\* that reads it can always run.
C8_ResolvedNames ==
    /\ \A d \in Documents :
        /\ \A k \in DOMAIN d.directors :
            d.directors[k].name = Resolved(d.directors[k].person_id)
        /\ \A k \in DOMAIN d.writers :
            d.writers[k].name = Resolved(d.writers[k].person_id)
        /\ \A k \in DOMAIN d.cast :
            d.cast[k].name = Resolved(d.cast[k].person_id)
        /\ PersonsOf(db.directors, d._id) = {e.person_id : e \in Range(d.directors)}
        /\ PersonsOf(db.writers, d._id) = {e.person_id : e \in Range(d.writers)}
        /\ PersonsOf(db.principals, d._id) = {e.person_id : e \in Range(d.cast)}
    /\ pc = "directors" => ENABLED ReadDirectors
    /\ pc = "principals" => ENABLED ReadPrincipals
    /\ pc = "writers" => ENABLED ReadWriters

C8_Witness ==
    /\ Completed
    /\ \E d \in Written :
        /\ d._id = "m2"
        /\ d.cast = <<[person_id |-> "p9", name |-> "Unknown", characters |-> <<>>]>>
    /\ \A r \in Range(db.persons) : r.person_id # "p9"

\* the characters pass (lines 98-101) is over
CharactersDone ==
    \/ pc \in {"writers", "assemble", "drop", "insert", "index", "example", "return"}
    \/ pc \in {"except", "exit"}
         /\ error \in {"writers", "drop", "insert", "index", "example", null}

\* a characters row whose (movie_id, person_id) pair no principals row has
Orphan(character) ==
    \A r \in Range(db.principals) :
        r.movie_id # character.movie_id \/ r.person_id # character.person_id

\* every (movie, entry, position) of a character name held in cast_dict
CharacterSlots ==
    UNION {UNION {{<<m, k, n>> : n \in DOMAIN cast_dict[m][k].characters} :
                    k \in DOMAIN cast_dict[m]} : m \in DOMAIN cast_dict}

\* C9: a characters row whose pair has no cast entry built from principals
\* is dropped silently: the cast entries are those of the principals rows,
\* the names held are one per characters row that is no orphan, and the
\* characters pass can always run.
C9_OrphanCharactersDropped ==
    /\ \A m \in DOMAIN cast_dict :
        {e.person_id : e \in Range(cast_dict[m])} \subseteq PersonsOf(db.principals, m)
    /\ \A d \in Documents :
        {e.person_id : e \in Range(d.cast)} \subseteq PersonsOf(db.principals, d._id)
    /\ CharactersDone =>
        Cardinality(CharacterSlots) =
            Cardinality({n \in DOMAIN db.characters : ~Orphan(db.characters[n])})
    /\ pc = "characters" => ENABLED ReadCharacters

C9_Witness ==
    /\ Completed
    /\ \E n \in DOMAIN db.characters : Orphan(db.characters[n])
    /\ \E n \in DOMAIN db.characters : ~Orphan(db.characters[n])
    /\ db.principals # <<>>

\* C10: when a source relation cannot be read, the run has written nothing:
\* every step taken while the relations are read, and every step of a run
\* that a failed read has ended, issues no operation on movies_complete and
\* leaves its documents and its indexes as they were.
C10_ReadFailureWritesNothing ==
    [][(pc \in ReadPhases \/ error' \in ReadPhases) =>
            /\ ops' = <<>>
            /\ movies_complete' = movies_complete
            /\ indexes' = indexes]_vars

C10_Witness ==
    /\ pc = "exit"
    /\ error = "writers"
    /\ closed = 1
    /\ movies_complete = <<StaleDoc>>
    /\ indexes = Range(IndexKeys)

IsPrefix(s, t) == Len(s) <= Len(t) /\ \A k \in DOMAIN s : s[k] = t[k]

\* C11: when a batch write fails the run halts and writes no later batch,
\* and the batches completed before the failure stay in the destination:
\* it holds the documents before the failed batch and a part of that batch,
\* and no step after the failure changes it.
C11_WriteFailureNoRollback ==
    /\ [](error = "insert" =>
            /\ pc \in {"except", "exit"}
            /\ IsPrefix(SubSeq(complete_movies, 1, i), movies_complete)
            /\ IsPrefix(movies_complete, complete_movies)
            /\ Len(movies_complete) < i + Len(Batch(complete_movies, i)))
    /\ [][error = "insert" => UNCHANGED <<movies_complete, indexes, ops>>]_vars

C11_Witness ==
    /\ error = "insert"
    /\ pc = "exit"
    /\ i = batch_size
    /\ Len(complete_movies) = 3
    /\ movies_complete = SubSeq(complete_movies, 1, batch_size)

\* C12: after a run that completes the destination holds exactly the
\* documents assembled in that run; the first operation of the run on the
\* destination is the drop, whatever the collection held, so no document of
\* an earlier run survives.
C12_DroppedAndRebuilt ==
    /\ Completed => movies_complete = complete_movies
    /\ ops # <<>> => ops[1].op = "drop"
    /\ \A k \in DOMAIN ops : k > 1 => ops[k].op # "drop"

C12_Witness ==
    /\ Completed
    /\ ops[1].docs = <<StaleDoc>>
    /\ Len(movies_complete) = 2

\* C13: two runs in a row on an unchanged source, both completing, leave
\* destination collections that are equal as sets of documents.
C13_Idempotent ==
    (run > 1 /\ Completed /\ previous.completed) =>
        /\ Range(movies_complete) = Range(previous.docs)
        /\ Len(movies_complete) = Len(previous.docs)

C13_Witness ==
    /\ run = 2
    /\ Completed
    /\ previous.completed
    /\ Len(previous.docs) = 3
    /\ Len(movies_complete) = 3

\* C14: the rebuild is not atomic. From the drop until the last batch is
\* written, and for good once a batch write has failed, the destination
\* holds neither what it held before nor the new documents in full: it is
\* empty or holds a strict prefix of them.
C14_NotAtomic ==
    (pc = "insert" \/ error = "insert") =>
        /\ ops # <<>> /\ ops[1].op = "drop"
        /\ IsPrefix(movies_complete, complete_movies)
        /\ Len(movies_complete) < Len(complete_movies)
        /\ StaleDoc \notin Range(movies_complete)
        /\ indexes = {}

C14_Witness ==
    /\ pc = "insert"
    /\ Len(ops) = 2
    /\ ops[1] = Op("drop", <<StaleDoc>>, null)
    /\ ops[2].op = "insert_many"
    /\ movies_complete = SubSeq(complete_movies, 1, batch_size)
    /\ Len(complete_movies) = 3

\* the keys of the create_index calls of this run, in call order
CreatedKeys ==
    LET calls == SelectSeq(ops, LAMBDA o : o.op = "create_index")
    IN  [k \in DOMAIN calls |-> calls[k].key]

\* C15: an index is created only once every batch is committed; a run that
\* completes has created indexes on exactly title, year, genres and
\* rating.average; a run whose bulk load failed has created none.
C15_IndexesAfterLoad ==
    /\ IndexesCreated > 0 =>
        /\ movies_complete = complete_movies
        /\ \A j, k \in DOMAIN ops :
            (ops[j].op = "create_index" /\ ops[k].op \in {"insert_many", "drop"}) => k < j
    /\ Completed =>
        /\ Len(CreatedKeys) = 4
        /\ Range(CreatedKeys) = {"title", "year", "genres", "rating.average"}
        /\ indexes = {"title", "year", "genres", "rating.average"}
    /\ error = "insert" => (IndexesCreated = 0 /\ indexes = {})

C15_Witness ==
    /\ Completed
    /\ Len(ops) = 7
    /\ ops[2].op = "insert_many" /\ ops[3].op = "insert_many"
    /\ CreatedKeys = <<"title", "year", "genres", "rating.average">>

\* C16: when a create_index call fails the failure reaches main, which
\* reports it, and the data stays: the destination holds every assembled
\* document, and neither the failing step nor any later one changes it.
C16_IndexFailureKeepsData ==
    /\ [](error = "index" =>
            /\ pc \in {"except", "exit"}
            /\ movies_complete = complete_movies
            /\ Len(movies_complete) = Len(db.movies))
    /\ [][error' = "index" => movies_complete' = movies_complete]_vars

C16_Witness ==
    /\ error = "index"
    /\ pc = "exit"
    /\ Len(movies_complete) = 3
    /\ CreatedKeys = <<"title", "year">>

\* the phases of build_movies_complete in the order of the code
Phases ==
    <<"movies", "ratings", "genres", "persons", "directors", "principals",
      "characters", "writers", "assemble", "drop", "insert", "index", "example",
      "return">>

Rank(phase) == CHOOSE k \in DOMAIN Phases : Phases[k] = phase

\* how far the run has come: the rank of the phase it is in, or was in when
\* it raised
Position ==
    IF pc \in {"except", "exit"}
    THEN IF error = null THEN Len(Phases) ELSE Rank(error)
    ELSE Rank(pc)

Passed(phase) == Position > Rank(phase)

MoviesIn(rows) == {r.movie_id : r \in Range(rows)}

\* the run raised in that phase
Raised(phase) == pc \in {"except", "exit"} /\ error = phase

\* What the loop of a phase may have taken of its relation: nothing before
\* the phase, all of it once the phase is passed, and the rows delivered
\* before the failure when the run raised in it.
Taken(phase) ==
    LET rows == Relation(phase)
    IN  IF Passed(phase) THEN {rows}
        ELSE IF Raised(phase) THEN {SubSeq(rows, 1, k) : k \in 0..Len(rows)}
        ELSE {<<>>}

\* C17: the phases run one after the other. Before its phase an index is
\* empty; once its phase is passed it holds the whole relation; a run that
\* raised in a phase holds the rows read until then in the index of that
\* phase and nothing in the later ones. So the persons map is complete
\* before a director, cast or writer name is resolved, the principals pass
\* is complete before a characters row is processed, every index is complete
\* before a document is assembled, and the run only ever moves to the next
\* phase.
C17_SequentialPhases ==
    /\ [](/\ movies = (IF Passed("movies") THEN db.movies ELSE <<>>)
          /\ \E rows \in Taken("ratings") : DOMAIN ratings_dict = MoviesIn(rows)
          /\ \E rows \in Taken("genres") :
                /\ DOMAIN genres_dict = MoviesIn(rows)
                /\ \A m \in DOMAIN genres_dict : Len(genres_dict[m]) = Len(RowsOf(rows, m))
          /\ \E rows \in Taken("persons") :
                DOMAIN persons_dict = {r.person_id : r \in Range(rows)}
          /\ \E rows \in Taken("directors") :
                /\ DOMAIN directors_dict = MoviesIn(rows)
                /\ \A m \in DOMAIN directors_dict :
                    Len(directors_dict[m]) = Len(RowsOf(rows, m))
          /\ \E rows \in Taken("principals") :
                /\ DOMAIN cast_dict = MoviesIn(rows)
                /\ \A m \in DOMAIN cast_dict :
                    {e.person_id : e \in Range(cast_dict[m])} = PersonsOf(rows, m)
          /\ \E rows \in Taken("characters") :
                Cardinality(CharacterSlots) =
                    Cardinality({n \in DOMAIN rows : ~Orphan(rows[n])})
          /\ \E rows \in Taken("writers") :
                /\ DOMAIN writers_dict = MoviesIn(rows)
                /\ \A m \in DOMAIN writers_dict :
                    Len(writers_dict[m]) = Len(RowsOf(rows, m))
          /\ Len(complete_movies) = (IF Passed("assemble") THEN Len(db.movies) ELSE 0))
    /\ [][\/ pc' \in {"except", "exit"}
          \/ Rank(pc') = Rank(pc) + 1
          \/ pc = "insert" /\ pc' = "insert"
          \/ pc = "index" /\ pc' = "index"
          \/ pc = "drop" /\ pc' = "index"]_vars

C17_Witness ==
    /\ pc = "characters"
    /\ DOMAIN cast_dict = {"m1", "m2"}
    /\ Len(cast_dict["m1"]) = 2
    /\ Len(db.characters) = 2
    /\ CharacterSlots = {}
    /\ complete_movies = <<>>

\* the documents of the insert_many calls of this run, batch after batch
RECURSIVE WrittenInOrder(_)
WrittenInOrder(log) ==
    IF log = <<>> THEN <<>>
    ELSE IF Head(log).op = "insert_many"
         THEN Head(log).docs \o WrittenInOrder(Tail(log))
         ELSE WrittenInOrder(Tail(log))

\* C18: the documents are assembled in the order the movies relation yields
\* its records, and the batches are written in that order: the batches put
\* end to end are the head of the assembled list, and the whole list once
\* the run completes.
C18_WriteOrder ==
    /\ \A k \in DOMAIN complete_movies :
        /\ complete_movies[k]._id = db.movies[k].movie_id
        /\ complete_movies[k].title = db.movies[k].primary_title
    /\ IsPrefix(WrittenInOrder(ops), complete_movies)
    /\ Completed => WrittenInOrder(ops) = complete_movies
    /\ ops # <<>> => movies_complete = WrittenInOrder(ops)

C18_Witness ==
    /\ Completed
    /\ db.movies = <<M3, M1, M2>>
    /\ Len(SelectSeq(ops, LAMBDA o : o.op = "insert_many")) = 2
    /\ movies_complete[1]._id = "m3" /\ movies_complete[3]._id = "m2"

\* C19: when the ratings relation yields several rows of one movie_id the
\* rows are all taken and the last one read wins: the rating of the document
\* carries the average and the votes of the last such row.
C19_LastRatingWins ==
    /\ \A d \in Documents :
        LET rows == RowsOf(db.ratings, d._id)
        IN  rows # <<>> =>
                d.rating = [average |-> rows[Len(rows)].average_rating,
                            votes |-> rows[Len(rows)].num_votes]
    /\ pc = "ratings" => ENABLED ReadRatings

C19_Witness ==
    /\ Completed
    /\ db.ratings = <<Rating("m1", "8.5", 1000), Rating("m1", "7.0", 10)>>
    /\ \E d \in Written : d._id = "m1" /\ d.rating = [average |-> "7.0", votes |-> 10]

\* C20: no in-memory index is changed once its build phase is over: the
\* ratings, genres, persons, directors and writers indices change in their
\* own phase only, the cast index in the principals and characters passes
\* only, and the assembly, the bulk load and the index creation change none.
C20_IndicesReadOnly ==
    [][/\ pc # "ratings" => ratings_dict' = ratings_dict
       /\ pc # "genres" => genres_dict' = genres_dict
       /\ pc # "persons" => persons_dict' = persons_dict
       /\ pc # "directors" => directors_dict' = directors_dict
       /\ pc \notin {"principals", "characters"} => cast_dict' = cast_dict
       /\ pc # "writers" => writers_dict' = writers_dict
       /\ pc # "movies" => movies' = movies]_vars

C20_Witness ==
    /\ Completed
    /\ pc = "exit"
    /\ DOMAIN genres_dict = {"m1"}
    /\ DOMAIN cast_dict = {"m1", "m2"}
    /\ Len(movies_complete) = 2
    /\ IndexesCreated = 4

CreditFields == {"person_id", "name"}

CastFields == {"person_id", "name", "characters"}

\* C21: every output document has exactly the fields _id, title, year,
\* runtime, rating, genres, directors, cast and writers: the key is the
\* movie_id of its movie, title, year and runtime are those of the movie
\* (runtime null when the movie has none), rating has exactly average and
\* votes, a director or writer entry exactly person_id and name, a cast
\* entry exactly person_id, name and characters.
C21_DocumentShape ==
    /\ \A k \in DOMAIN complete_movies :
        LET d == complete_movies[k]
            movie == db.movies[k]
        IN  /\ DOMAIN d = DocumentFields
            /\ d._id = movie.movie_id
            /\ d.title = movie.primary_title
            /\ d.year = movie.start_year
            /\ d.runtime = movie.runtime_minutes
    /\ \A d \in Documents :
        /\ DOMAIN d = DocumentFields
        /\ DOMAIN d.rating = {"average", "votes"}
        /\ \A k \in DOMAIN d.directors : DOMAIN d.directors[k] = CreditFields
        /\ \A k \in DOMAIN d.writers : DOMAIN d.writers[k] = CreditFields
        /\ \A k \in DOMAIN d.cast : DOMAIN d.cast[k] = CastFields

C21_Witness ==
    /\ Completed
    /\ db.movies = <<M1, M2>>
    /\ \E d \in Written : d._id = "m2" /\ d.runtime = null
    /\ \E d \in Written :
        /\ d._id = "m1" /\ d.runtime = "100"
        /\ d.directors # <<>> /\ d.cast # <<>>

\* the document of the scenario of the specification
ScenarioDoc ==
    [_id |-> "m1", title |-> "Alpha", year |-> 2000, runtime |-> "100",
     rating |-> [average |-> "8.5", votes |-> 1000],
     genres |-> <<"Drama">>,
     directors |-> <<[person_id |-> "p2", name |-> "B. Director"]>>,
     cast |-> <<[person_id |-> "p1", name |-> "A. Actor",
                 characters |-> <<"Hero", "Narrator">>]>>,
     writers |-> <<>>]

\* C22: on the source of the scenario (one movie m1 with its rating, genre,
\* director p2, principal p1 playing Hero and Narrator, and no writer) the
\* run assembles exactly one document, the one the specification gives, and
\* a run that completes leaves exactly that document in the destination.
C22_Scenario ==
    db = BaseSource =>
        /\ Passed("assemble") => complete_movies = <<ScenarioDoc>>
        /\ Completed => movies_complete = <<ScenarioDoc>>

C22_Witness ==
    /\ db = BaseSource
    /\ pc = "exit"
    /\ error = null
    /\ ops[1].docs = <<StaleDoc>>
    /\ movies_complete = <<ScenarioDoc>>

\* C23: the counts of the progress messages of the bulk load never
\* decrease from one message to the next, and none exceeds the number of
\* assembled documents.
C23_ProgressMonotonic ==
    \A k \in DOMAIN progress :
        /\ progress[k] <= Len(complete_movies)
        /\ k > 1 => progress[k - 1] <= progress[k]

C23_Witness ==
    /\ Len(complete_movies) = 19
    /\ progress = <<10, 19>>
    /\ Completed

\* C24: an error raised in the build halts the run where it is raised: from
\* then on no phase runs, so the destination, the operations issued on it
\* and the in-memory indices stay as they are; and main has printed the
\* exception it caught.
C24_FatalErrorHaltsAndSurfaces ==
    /\ [](error # null =>
            /\ pc \in {"except", "exit"}
            /\ reported = error)
    /\ [](error = null => reported = null)
    /\ [][error # null =>
            /\ error' = error
            /\ pc' = "exit"
            /\ UNCHANGED <<store, dicts, movies, complete_movies, i, stdout>>]_vars

C24_Witness ==
    /\ pc = "exit"
    /\ error = "genres"
    /\ reported = "genres"
    /\ db.genres = <<Genre("m1", "Drama"), Genre("m2", "Drama")>>
    /\ DOMAIN ratings_dict = {"m1"}
    /\ DOMAIN genres_dict = {"m1"}
    /\ persons_dict = EmptyDict
    /\ complete_movies = <<>>
    /\ ops = <<>>
    /\ closed = 1

\* the insert_many calls of this run that succeeded, in call order
Batches ==
    LET calls == SelectSeq(ops, LAMBDA o : o.op = "insert_many")
    IN  IF error = "insert" THEN SubSeq(calls, 1, Len(calls) - 1) ELSE calls

\* C25: the bulk load writes the N assembled documents in consecutive
\* batches: the k-th batch is the k-th slice of batch_size documents of the
\* list, so every batch but the last holds batch_size documents, the last
\* between 1 and batch_size, and no batch is empty; a run that completes has
\* written ceil(N / batch_size) batches, and with N = 0 it has dropped the
\* collection and issued no insert.
C25_BatchPartition ==
    LET N == Len(complete_movies)
    IN  /\ \A k \in DOMAIN Batches :
            /\ Len(Batches[k].docs) \in 1..batch_size
            /\ k < Len(Batches) => Len(Batches[k].docs) = batch_size
            /\ Batches[k].docs =
                 SubSeq(complete_movies, (k - 1) * batch_size + 1,
                        IF k * batch_size < N THEN k * batch_size ELSE N)
        /\ Completed =>
            /\ Len(Batches) = (N + batch_size - 1) \div batch_size
            /\ ops[1].op = "drop"
            /\ N = 0 => \A k \in DOMAIN ops : ops[k].op # "insert_many"

C25_Witness ==
    /\ Completed
    /\ Len(complete_movies) = 5
    /\ Len(Batches) = 3
    /\ Len(Batches[3].docs) = 1

\* C26: the keys of the output documents are the movie_ids of the movies
\* relation and no others: a ratings, genres, directors, writers, principals
\* or characters row whose movie_id the movies relation lacks yields no
\* document, and a document holds only what the rows of its own movie_id
\* give.
C26_OrphanRowsIgnored ==
    /\ Passed("assemble") => Ids(complete_movies) = MoviesIn(db.movies)
    /\ Completed => Ids(movies_complete) = MoviesIn(db.movies)
    /\ \A d \in Documents :
        /\ d._id \in MoviesIn(db.movies)
        /\ RowsOf(db.ratings, d._id) = <<>> => d.rating = DefaultRating
        /\ Range(d.genres) = {r.genre : r \in Range(RowsOf(db.genres, d._id))}
        /\ {e.person_id : e \in Range(d.directors)} = PersonsOf(db.directors, d._id)
        /\ {e.person_id : e \in Range(d.writers)} = PersonsOf(db.writers, d._id)
        /\ {e.person_id : e \in Range(d.cast)} = PersonsOf(db.principals, d._id)
        /\ \A k \in DOMAIN d.cast :
            Len(d.cast[k].characters) =
                Len(RowsOfPair(db.characters, d._id, d.cast[k].person_id))

C26_Witness ==
    /\ Completed
    /\ db.movies = <<M2, M3>>
    /\ Ids(movies_complete) = {"m2", "m3"}
    /\ "m1" \in MoviesIn(db.ratings) \cap MoviesIn(db.genres) \cap MoviesIn(db.directors)
    /\ "m1" \in MoviesIn(db.principals) \cap MoviesIn(db.characters)
    /\ \A d \in Written : d.genres = <<>> /\ d.cast = <<>> /\ d.directors = <<>>

\* C27: the genres, directors and writers lists are not deduplicated: each
\* holds one element per source row of its movie_id, in the order the rows
\* are read, so a repeated row is repeated in the document.
C27_ListsKeepDuplicates ==
    \A d \in Documents :
        LET gs == RowsOf(db.genres, d._id)
            ds == RowsOf(db.directors, d._id)
            ws == RowsOf(db.writers, d._id)
        IN  /\ Len(d.genres) = Len(gs)
            /\ \A k \in DOMAIN gs : d.genres[k] = gs[k].genre
            /\ Len(d.directors) = Len(ds)
            /\ \A k \in DOMAIN ds : d.directors[k].person_id = ds[k].person_id
            /\ Len(d.writers) = Len(ws)
            /\ \A k \in DOMAIN ws : d.writers[k].person_id = ws[k].person_id

C27_Witness ==
    /\ Completed
    /\ db.genres = <<Genre("m1", "Drama"), Genre("m1", "Drama")>>
    /\ \E d \in Written : d._id = "m1" /\ d.genres = <<"Drama", "Drama">>

\* what build_movies_complete assembles from the source (lines 32-142)
Expected ==
    LET pd == BuildPersons(db.persons, EmptyDict)
    IN  Assemble(db.movies,
                 BuildRatings(db.ratings, EmptyDict),
                 BuildGenres(db.genres, EmptyDict),
                 BuildCredits(db.directors, pd, EmptyDict),
                 AddCharacters(db.characters, BuildCast(db.principals, pd, EmptyDict)),
                 BuildCredits(db.writers, pd, EmptyDict))

\* C28: after a run that failed in a batch write or in an index creation,
\* a run on the same source that completes leaves in the destination the
\* documents of a single completed run, each once, in their order: nothing
\* the failed run or an earlier one wrote remains beside them.
C28_RecoveryAfterFailure ==
    (run > 1 /\ Completed /\ previous.error \in {"insert", "index"}) =>
        /\ movies_complete = Expected
        /\ Cardinality(Ids(movies_complete)) = Len(movies_complete)
        /\ indexes = Range(IndexKeys)

C28_Witness ==
    /\ run = 2
    /\ Completed
    /\ previous.error = "insert"
    /\ Len(previous.docs) = 2
    /\ Len(movies_complete) = 3
    /\ ops[1] = Op("drop", previous.docs, null)

\* C29: main closes the connection exactly once on every path: a run ends
\* only at the exit of main, whether the build returned or raised, the exit
\* is reached through the close of the finally clause alone, and close is
\* called once.
C29_ClosedExactlyOnce ==
    /\ closed \in {0, 1}
    /\ pc = "exit" <=> closed = 1
    /\ pc \in {"return", "except"} => ENABLED Close
    /\ ~(ENABLED Next) => pc = "exit"
    /\ pc = "except" <=> (error # null /\ closed = 0)

C29_Witness ==
    /\ pc = "exit"
    /\ closed = 1
    /\ error = "example"
    /\ Len(movies_complete) = 2

\* the tables whose migrate_table returned success, in the order of the calls
Succeeded == SelectSeq(attempts, LAMBDA a : a.success)

RECURSIVE SumOfCounts(_)
SumOfCounts(calls) ==
    IF calls = <<>> THEN 0 ELSE Head(calls).count + SumOfCounts(Tail(calls))

\* C30: a table whose migrate_table fails returns (False, 0) and does not
\* stop migrate_all: the tables of Config.TABLES are attempted one after
\* the other, all of them by the time migrate_all returns; tables_migrated
\* is the number of tables that succeeded and total_documents the sum of
\* the inserted counts of exactly those tables, the rows of these tables.
C30_MigrationContinues ==
    /\ \A k \in DOMAIN attempts :
        /\ attempts[k].table = TABLES[k]
        /\ ~attempts[k].success => attempts[k].count = 0
        /\ attempts[k].success => attempts[k].count = Len(sqlite[TABLES[k]])
    /\ Len(attempts) = table - 1
    /\ mpc = "done" => Len(attempts) = Len(TABLES)
    /\ (mpc = "migrate" /\ table <= Len(TABLES)) => ENABLED MigrateTableSucceeds
    /\ stats.tables_migrated = Len(Succeeded)
    /\ stats.total_documents = SumOfCounts(Succeeded)
    /\ DOMAIN stats.table_stats = {a.table : a \in Range(Succeeded)}

C30_Witness ==
    /\ mpc = "done"
    /\ ~attempts[2].success
    /\ Len(mongo_db["movies"]) = 3
    /\ ~attempts[5].success
    /\ stats.tables_migrated = 10
    /\ stats.total_documents = SumOfCounts(attempts)
    /\ stats.total_documents > 0
    /\ attempts[12].success

====
